---- MODULE Spec2Model ----
(***************************************************************************)
(* A model of src/src/npm-api.ts: the eight package-research operations,   *)
(* the fetchJson adapter under them and the Promise.all fan-out of         *)
(* compareDownloads.                                                       *)
(*                                                                         *)
(* One invocation runs at a time.  Calling an operation issues its GET     *)
(* request(s) synchronously; the environment then resolves or rejects each *)
(* fetch, and later each body read (json() or text()), in any order.  The  *)
(* continuation of the operation runs with the body read.                  *)
(*                                                                         *)
(* JavaScript strings are TLA+ strings.  A value that may be undefined is  *)
(* Undefined or Some(v); a JSON object is a function whose domain is the   *)
(* set of keys present in it.  An Error is its message.                    *)
(*                                                                         *)
(* SpecNormalize applies the repository normalization of getPackageInfo,   *)
(* a pure function, to a bounded set of strings, twice in a row.           *)
(***************************************************************************)
EXTENDS Integers, Sequences, FiniteSets, TLC

VARIABLES
    call,        \* the running invocation: its operation and arguments
    requests,    \* the URLs it has issued a GET for, in order of issue
    tasks,       \* one record per fetch: its stage, response, body, promise
    completed,   \* the fetches whose promise has settled, in order of settling
    results,     \* the values array of compareDownloads' Promise.all
    outcome,     \* the promise the invocation returned
    normalized   \* a repository string and its successive normalizations

vars == <<call, requests, tasks, completed, results, outcome, normalized>>

\* ------------------------------------------------------------------ bounds
\* Longest package list given to compareDownloads.
MaxPackages == 2
\* Longest objects list of a search response.
MaxObjects == 1
\* Longest daily series of a range response.
MaxDays == 3
\* Largest daily download count of a range response.
MaxCount == 7
\* Most pieces a repository string is made of.
MaxParts == 3

\* index.ts validates compare_downloads' `packages` with .min(2).
MinPackages == 2

\* --------------------------------------------------------------- constants
REGISTRY == "https://registry.npmjs.org"
API == "https://api.npmjs.org"
BUNDLEPHOBIA == "https://bundlephobia.com/api/size"

\* ------------------------------------------------------ JavaScript values
Undefined == [undefined |-> TRUE]
Some(v) == [value |-> v]

\* obj[k] of a parsed JSON object: undefined when the key is absent.
Get(obj, k) == IF k \in DOMAIN obj THEN Some(obj[k]) ELSE Undefined

\* opt?.[k]
GetOpt(opt, k) == IF opt = Undefined THEN Undefined ELSE Get(opt.value, k)

\* opt ?? d
Coalesce(opt, d) == IF opt = Undefined THEN d ELSE opt.value

\* `${opt}` and String(opt)
ToStr(opt) == IF opt = Undefined THEN "undefined" ELSE opt.value

\* The object `full` with only the keys of S present.
Restrict(full, S) == [k \in S |-> full[k]]

\* ---------------------------------------------------------------- strings
StartsWith(s, p) == Len(s) >= Len(p) /\ SubSeq(s, 1, Len(p)) = p

EndsWith(s, p) == Len(s) >= Len(p) /\ SubSeq(s, Len(s) - Len(p) + 1, Len(s)) = p

\* s.includes(p)
Includes(s, p) == \E i \in 1..(Len(s) - Len(p) + 1) : SubSeq(s, i, i + Len(p) - 1) = p

\* s.indexOf(c) + 1 for a single character c; 0 when c does not occur.
IndexOf(s, c) ==
    IF Includes(s, c)
    THEN CHOOSE i \in 1..Len(s) : SubSeq(s, i, i) = c /\ \A j \in 1..(i - 1) : SubSeq(s, j, j) # c
    ELSE 0

\* s.split(c)[0]
SplitFirst(s, c) == IF IndexOf(s, c) = 0 THEN s ELSE SubSeq(s, 1, IndexOf(s, c) - 1)

\* encodeURIComponent on one character: the reserved characters that occur in
\* package names, specs and queries are percent-encoded, the rest are kept.
EncodeChar(c) ==
    CASE c = "@" -> "%40"
      [] c = "/" -> "%2F"
      [] c = " " -> "%20"
      [] c = "+" -> "%2B"
      [] c = ":" -> "%3A"
      [] OTHER -> c

RECURSIVE encodeURIComponent(_)
encodeURIComponent(s) ==
    IF s = "" THEN ""
    ELSE EncodeChar(SubSeq(s, 1, 1)) \o encodeURIComponent(SubSeq(s, 2, Len(s)))

\* --------------------------------------------------------------- promises
Pending == [state |-> "pending"]
Fulfilled(v) == [state |-> "fulfilled", value |-> v]
Rejected(e) == [state |-> "rejected", error |-> e]

\* ------------------------------------------------------------ HTTP layer
\* What the environment can answer to a GET: the status line first ...
Responses ==
    { [ok |-> TRUE, status |-> 200],
      [ok |-> FALSE, status |-> 404],
      [ok |-> FALSE, status |-> 500] }

\* ... and the body of a non-success response, read by response.text().
ErrorTexts == { "Not found", "Internal Server Error" }

\* fetch() itself rejecting (no connection).
NetworkError == "fetch failed"

\* response.json() or response.text() rejecting.
BodyReadError(response) ==
    IF response.ok THEN "Unexpected end of JSON input" ELSE "terminated"

\* A fetchJson that reports the status alone.
fetchJsonStatusOnly(response, body) ==
    IF ~response.ok
    THEN Rejected("API error (" \o ToString(response.status) \o ")")
    ELSE Fulfilled(body)

\* fetchJson once the body has been read: `body` is the text of a non-success
\* response, the parsed JSON of a success response.
fetchJson(response, body) ==
    IF ~response.ok
    THEN Rejected("API error (" \o ToString(response.status) \o "): " \o body)
    ELSE Fulfilled(body)

\* ---------------------------------------------------------- searchPackages
Queries == { "react state", "lodash" }

Sizes == { Undefined, Some(5) }

searchPackagesUrl(query, size) ==
    REGISTRY \o "/-/v1/search?text=" \o encodeURIComponent(query)
             \o "&size=" \o ToString(Coalesce(size, 10))

\* All sequences over S of length at most n.
SeqUpTo(S, n) == UNION { [1..k -> S] : k \in 0..n }

SearchPackageFull ==
    [name |-> "lodash", version |-> "4.17.21",
     description |-> "Lodash modular utilities", keywords |-> <<"modules", "util">>]

\* The elements of `objects`: a package with any subset of its fields, or an
\* element without `package`.
SearchObjects ==
    { [package |-> Restrict(SearchPackageFull, S)] : S \in SUBSET DOMAIN SearchPackageFull }
      \cup { [searchScore |-> 1] }

\* Search documents, `objects` absent included.
SearchDocs ==
    { [objects |-> l] : l \in SeqUpTo(SearchObjects, MaxObjects) } \cup { [total |-> 0] }

\* data.objects.map(...) of searchPackages, one element.
SearchResultOf(obj) ==
    [name |-> Get(obj.package, "name"),
     version |-> Get(obj.package, "version"),
     description |-> Coalesce(Get(obj.package, "description"), ""),
     keywords |-> Coalesce(Get(obj.package, "keywords"), <<>>),
     downloads |-> 0]

\* searchPackages after its await: p is the settled promise of fetchJson.
\* Reading a property of undefined throws a TypeError.
searchPackages(p) ==
    IF p.state = "rejected" THEN p
    ELSE IF "objects" \notin DOMAIN p.value
    THEN Rejected("Cannot read properties of undefined (reading 'map')")
    ELSE IF \E i \in DOMAIN p.value.objects : "package" \notin DOMAIN p.value.objects[i]
    THEN Rejected("Cannot read properties of undefined (reading 'name')")
    ELSE Fulfilled([i \in DOMAIN p.value.objects |-> SearchResultOf(p.value.objects[i])])

\* ---------------------------------------------------------- getPackageInfo
\* A JSON object with no key.
EmptyObject == [k \in {} |-> ""]

\* s.replace(/^git\+/, "")
StripGitPrefix(s) == IF StartsWith(s, "git+") THEN SubSeq(s, 5, Len(s)) ELSE s

\* The suffix pattern without its anchor, /\.git/: the first ".git" goes,
\* wherever it is.
StripGitUnanchored(s) ==
    IF Includes(s, ".git")
    THEN LET at == CHOOSE i \in 1..Len(s) :
                      /\ i + 3 <= Len(s)
                      /\ SubSeq(s, i, i + 3) = ".git"
                      /\ \A j \in 1..(i - 1) : SubSeq(s, j, j + 3) # ".git"
         IN SubSeq(s, 1, at - 1) \o SubSeq(s, at + 4, Len(s))
    ELSE s

\* s.replace(/\.git$/, "")
StripGitSuffix(s) == IF EndsWith(s, ".git") THEN SubSeq(s, 1, Len(s) - 4) ELSE s

\* String(repoUrl).replace(/^git\+/, "").replace(/\.git$/, "")
normalizeRepository(s) == StripGitSuffix(StripGitPrefix(s))

\* typeof data.repository === "string" ? data.repository
\*                                     : (data.repository?.url ?? "")
\* A repository value carries its JSON type: [type |-> "string", string |-> s]
\* or [type |-> "object", object |-> o].
repoUrl(repository) ==
    IF repository # Undefined /\ repository.value.type = "string"
    THEN repository.value.string
    ELSE IF repository = Undefined THEN ""
    ELSE Coalesce(Get(repository.value.object, "url"), "")

\* data["dist-tags"]?.["latest"] ?? ""
latestVersion(data) == Coalesce(GetOpt(Get(data, "dist-tags"), "latest"), "")

\* data.versions?.[latestVersion] ?? {}
latestData(data) == Coalesce(GetOpt(Get(data, "versions"), latestVersion(data)), EmptyObject)

\* getPackageInfo after its await: p is the settled promise of fetchJson.
\* A dependency mapping is the sequence of its entries, in document order.
getPackageInfo(p) ==
    IF p.state = "rejected" THEN p
    ELSE Fulfilled(
        [name |-> Get(p.value, "name"),
         version |-> latestVersion(p.value),
         description |-> Coalesce(Get(p.value, "description"), ""),
         license |-> Coalesce(Get(p.value, "license"), "Unknown"),
         homepage |-> Coalesce(Get(p.value, "homepage"), ""),
         repository |-> normalizeRepository(repoUrl(Get(p.value, "repository"))),
         keywords |-> Coalesce(Get(p.value, "keywords"), <<>>),
         dependencies |-> Coalesce(Get(latestData(p.value), "dependencies"), <<>>),
         devDependencies |-> Coalesce(Get(latestData(p.value), "devDependencies"), <<>>)])

getPackageInfoUrl(name) == REGISTRY \o "/" \o encodeURIComponent(name)

\* The versions the registry documents speak of, the empty key among them.
VersionKeys == { "", "4.18.0", "5.0.0" }

VersionFull(v) ==
    CASE v = "4.18.0" ->
           [dependencies |-> << <<"debug", "2.6.9">>, <<"qs", "6.11.0">> >>,
            devDependencies |-> << <<"eslint", "8.0.0">> >>]
      [] v = "5.0.0" ->
           [dependencies |-> << <<"ms", "2.1.3">> >>,
            devDependencies |-> << <<"mocha", "10.2.0">> >>]
      [] OTHER ->
           [dependencies |-> << <<"left-pad", "1.0.0">> >>,
            devDependencies |-> << <<"tap", "16.0.0">> >>]

\* A versions map: the entries of the keys K, each with the fields F, or
\* with empty mappings.
VersionsMaps ==
    { [v \in K |-> Restrict(VersionFull(v), F)] :
        K \in SUBSET VersionKeys, F \in SUBSET {"dependencies", "devDependencies"} }
      \cup { [v \in {"4.18.0"} |-> [dependencies |-> <<>>, devDependencies |-> <<>>]] }

DistTags ==
    { EmptyObject, [latest |-> "4.18.0"], [latest |-> "5.0.0"], [latest |-> "3.0.0"],
      [next |-> "5.0.0"] }

RepositoryValues ==
    { [type |-> "string", string |-> "git+https://github.com/expressjs/express.git"],
      [type |-> "object", object |-> [url |-> "git+https://github.com/expressjs/express.git"]],
      [type |-> "object", object |-> [url |-> "https://github.com/expressjs/express"]],
      [type |-> "object", object |-> [type |-> "git"]] }

PackageMetaFull ==
    [name |-> "express", description |-> "Fast web framework", license |-> "MIT",
     homepage |-> "https://expressjs.com", keywords |-> <<"web", "framework">>]

\* The object o with key k set to v.
With(o, k, v) == [x \in DOMAIN o \cup {k} |-> IF x = k THEN v ELSE o[x]]

\* Documents that vary name, dist-tags and versions, the rest as published.
DependencyDocs ==
    LET base == PackageMetaFull
        named == { base, Restrict(base, DOMAIN base \ {"name"}) }
        tagged == named \cup { With(d, "dist-tags", t) : d \in named, t \in DistTags }
    IN tagged \cup { With(d, "versions", m) : d \in tagged, m \in VersionsMaps }

\* Documents that vary the descriptive fields and the repository.
MetaDocs ==
    LET base == With(With(PackageMetaFull, "dist-tags", [latest |-> "4.18.0"]),
                     "versions", [v \in {"4.18.0"} |-> VersionFull(v)])
        some == { Restrict(base, DOMAIN base \ S) :
                    S \in SUBSET {"description", "license", "homepage", "keywords"} }
    IN some \cup { With(d, "repository", r) : d \in some, r \in RepositoryValues }

PackageDocs == DependencyDocs \cup MetaDocs

\* ------------------------------------------------------------ getDownloads
Periods == { Undefined, Some("last-week") }

\* period = "last-month"
DefaultPeriod(period) == Coalesce(period, "last-month")

PackageNames == { "zustand", "@scope/pkg" }

PointFull(n) ==
    [package |-> "lodash", downloads |-> n, start |-> "2025-01-01", end |-> "2025-01-31"]

\* Point-download documents, any subset of the fields absent.
PointDocs ==
    { Restrict(PointFull(n), S) :
        n \in {5000000, 2000000},
        S \in SUBSET {"package", "downloads", "start", "end"} }

\* The point documents answered inside a comparison.
ComparePointDocs == { d \in PointDocs : {"start", "end"} \subseteq DOMAIN d }

getDownloadsUrl(name, period) ==
    API \o "/downloads/point/" \o DefaultPeriod(period) \o "/" \o encodeURIComponent(name)

\* getDownloads after its await: p is the settled promise of fetchJson.
getDownloads(name, p) ==
    IF p.state = "rejected" THEN p
    ELSE Fulfilled([package |-> Coalesce(Get(p.value, "package"), name),
                    downloads |-> Get(p.value, "downloads"),
                    start |-> Get(p.value, "start"),
                    end |-> Get(p.value, "end")])

\* -------------------------------------------------------- compareDownloads
\* Package i of the lists the comparisons are called with.
PackageAt(i) == IF i % 2 = 1 THEN "zustand" ELSE "@scope/pkg"

PackageLists ==
    { [i \in 1..n |-> PackageAt(i)] : n \in MinPackages..MaxPackages }
      \cup { [i \in 1..MinPackages |-> "zustand"] }

\* A join that collects the values in order of completion: the value goes
\* to the first free index.
JoinStoreInCompletionOrder(values, i, v) ==
    LET free == CHOOSE j \in DOMAIN values :
                   values[j] = Undefined /\ \A k \in 1..(j - 1) : values[k] # Undefined
    IN [values EXCEPT ![free] = Some(v)]

\* Promise.all's resolve-element function: the value of element i is stored
\* at index i of the values array.
JoinStore(values, i, v) == [values EXCEPT ![i] = Some(v)]

\* A join that waits for every element and keeps what succeeded
\* (Promise.allSettled, filtered): a rejection leaves a hole.
JoinSettleTolerant(joined, values, p) ==
    IF joined # Pending THEN joined
    ELSE IF p.state = "rejected" THEN joined
    ELSE IF \A j \in DOMAIN values : values[j] # Undefined
         THEN Fulfilled([j \in DOMAIN values |-> values[j].value])
    ELSE joined

\* A join whose error is that of the latest rejection: each rejection
\* replaces the one reported before.
JoinSettleLastFailure(joined, values, p) ==
    IF p.state = "rejected" THEN p
    ELSE IF joined # Pending THEN joined
    ELSE IF \A j \in DOMAIN values : values[j] # Undefined
         THEN Fulfilled([j \in DOMAIN values |-> values[j].value])
    ELSE joined

\* Promise.all after element i settled with promise p, `values` already
\* holding p's value: the first rejection rejects the joined promise, the
\* last fulfilment fulfils it with the values array; a settled promise stays.
JoinSettle(joined, values, p) ==
    IF joined # Pending THEN joined
    ELSE IF p.state = "rejected" THEN p
    ELSE IF \A j \in DOMAIN values : values[j] # Undefined
         THEN Fulfilled([j \in DOMAIN values |-> values[j].value])
    ELSE joined

\* ----------------------------------------------------------- getBundleSize
BundleNames ==
    { "lodash", "lodash@4.17.21", "@scope/pkg", "@scope/pkg@1.0.0", "react@", "a@b@c" }

\* A spec that is given the latest tag whatever the name.
pkgSpecAlwaysLatest(name) == name \o "@latest"

\* name.includes("@") ? name : `${name}@latest`
pkgSpec(name) == IF Includes(name, "@") THEN name ELSE name \o "@latest"

getBundleSizeUrl(name) == BUNDLEPHOBIA \o "?package=" \o encodeURIComponent(pkgSpec(name))

BundleFull ==
    [name |-> "lodash", version |-> "4.17.21", size |-> 71124, gzip |-> 24542,
     dependencyCount |-> 3]

BundleDocs == { Restrict(BundleFull, S) : S \in SUBSET DOMAIN BundleFull }

\* getBundleSize after its await: p is the settled promise of fetchJson.
\* name.split("@")[0] is always a string, so the last `?? name` never applies.
getBundleSize(name, p) ==
    IF p.state = "rejected" THEN p
    ELSE Fulfilled(
        [name |-> Coalesce(Get(p.value, "name"), Coalesce(Some(SplitFirst(name, "@")), name)),
         version |-> Coalesce(Get(p.value, "version"), "latest"),
         size |-> Coalesce(Get(p.value, "size"), 0),
         gzip |-> Coalesce(Get(p.value, "gzip"), 0),
         dependencyCount |-> Coalesce(Get(p.value, "dependencyCount"), 0)])

\* ------------------------------------------------------ getVulnerabilities
advisoryUrl(info) ==
    "https://github.com/advisories?query=" \o encodeURIComponent(ToStr(info.name))

\* The text getVulnerabilities returns.  A TLA+ string cannot hold a
\* backquote: those around npm audit are written as apostrophes.
\* The character "
DoubleQuote == SubSeq("<\">", 2, 2)

InstructionalText(name, info) ==
    "Vulnerability data for " \o DoubleQuote \o name \o DoubleQuote
      \o " requires 'npm audit' in a project that uses it.\n\n"
      \o "Public APIs: Run 'npm audit' in your project, or check advisories at:\n"
      \o advisoryUrl(info)
      \o "\n\nFor automated scanning, consider Snyk or Dependabot."

\* The catch clause: the error's message behind a prefix.
WrapLookupError(message) ==
    "Could not fetch package info for vulnerability check: " \o message

\* A getVulnerabilities whose catch clause falls back to the text, with the
\* name as given.
getVulnerabilitiesDegrading(name, p) ==
    LET info == getPackageInfo(p)
    IN IF info.state = "rejected"
       THEN Fulfilled(InstructionalText(name, [name |-> Some(name)]))
       ELSE Fulfilled(InstructionalText(name, info.value))

\* getVulnerabilities after its await: p is the settled promise of fetchJson
\* inside getPackageInfo.
getVulnerabilities(name, p) ==
    LET info == getPackageInfo(p)
    IN IF info.state = "rejected"
       THEN Rejected(WrapLookupError(info.error))
       ELSE Fulfilled(InstructionalText(name, info.value))

\* ------------------------------------------------------- getDependencyTree
\* lines.join(sep)
RECURSIVE Join(_, _)
Join(lines, sep) ==
    IF lines = <<>> THEN ""
    ELSE IF Len(lines) = 1 THEN lines[1]
    ELSE lines[1] \o sep \o Join(Tail(lines), sep)

\* One line per entry: the connector (box-drawing characters in the source,
\* which a TLA+ string cannot hold), then dep@version.
Connector == "|-- "

EntryLines(entries) ==
    [i \in DOMAIN entries |-> Connector \o entries[i][1] \o "@" \o entries[i][2]]

\* A tree whose marker looks at the dependencies alone: a package with
\* devDependencies only is rendered with the marker after its group.
getDependencyTreeMarkerOnDeps(p) ==
    LET info == getPackageInfo(p)
    IN IF info.state = "rejected" THEN info
       ELSE LET depEntries == info.value.dependencies
                devDepEntries == info.value.devDependencies
                head == << ToStr(info.value.name) \o "@" \o info.value.version, "" >>
                deps == IF Len(depEntries) > 0
                        THEN <<"dependencies:">> \o EntryLines(depEntries) ELSE <<>>
                devs == IF Len(devDepEntries) > 0
                        THEN <<"", "devDependencies:">> \o EntryLines(devDepEntries) ELSE <<>>
                none == IF Len(depEntries) = 0 THEN <<"(no dependencies)">> ELSE <<>>
            IN Fulfilled(Join(head \o deps \o devs \o none, "\n"))

\* getDependencyTree after its await: p is the settled promise of fetchJson
\* inside getPackageInfo.
getDependencyTree(p) ==
    LET info == getPackageInfo(p)
    IN IF info.state = "rejected" THEN info
       ELSE LET depEntries == info.value.dependencies
                devDepEntries == info.value.devDependencies
                head == << ToStr(info.value.name) \o "@" \o info.value.version, "" >>
                deps == IF Len(depEntries) > 0
                        THEN <<"dependencies:">> \o EntryLines(depEntries) ELSE <<>>
                devs == IF Len(devDepEntries) > 0
                        THEN <<"", "devDependencies:">> \o EntryLines(devDepEntries) ELSE <<>>
                none == IF Len(depEntries) = 0 /\ Len(devDepEntries) = 0
                        THEN <<"(no dependencies)">> ELSE <<>>
            IN Fulfilled(Join(head \o deps \o devs \o none, "\n"))

\* ------------------------------------------------------- getDownloadTrends
getDownloadTrendsUrl(name, period) ==
    API \o "/downloads/range/" \o DefaultPeriod(period) \o "/" \o encodeURIComponent(name)

DayName(i) == "2025-01-" \o (IF i < 10 THEN "0" ELSE "") \o ToString(i)

\* The daily series: day i of the month with any count up to MaxCount.
Series ==
    UNION { { [i \in 1..n |-> [day |-> DayName(i), downloads |-> c[i]]] :
                c \in [1..n -> 0..MaxCount] } : n \in 0..MaxDays }

RangeFull(series) ==
    [downloads |-> series, start |-> "2025-01-01", end |-> "2025-01-31",
     package |-> "typescript"]

\* Range documents: `downloads` absent, or any series; `package` absent or not.
RangeDocs ==
    { Restrict(RangeFull(<<>>), S) : S \in { {"start", "end"}, {"start", "end", "package"} } }
      \cup { Restrict(RangeFull(l), S) :
               l \in Series,
               S \in { {"downloads", "start", "end"}, {"downloads", "start", "end", "package"} } }

\* n.toLocaleString() in the en-US locale: groups of three digits.
Pad3(k) == (IF k < 10 THEN "00" ELSE IF k < 100 THEN "0" ELSE "") \o ToString(k)

RECURSIVE toLocaleString(_)
toLocaleString(n) ==
    IF n < 1000 THEN ToString(n)
    ELSE toLocaleString(n \div 1000) \o "," \o Pad3(n % 1000)

\* data.downloads ?? []
dailyOf(data) == Coalesce(Get(data, "downloads"), <<>>)

\* daily.reduce((sum, d) => sum + d.downloads, 0)
RECURSIVE trendTotal(_)
trendTotal(daily) ==
    IF daily = <<>> THEN 0
    ELSE trendTotal(SubSeq(daily, 1, Len(daily) - 1)) + daily[Len(daily)].downloads

\* Math.floor(total / daily.length): the average rounded down.
trendAvgFloor(daily) ==
    IF Len(daily) > 0
    THEN trendTotal(daily) \div Len(daily)
    ELSE 0

\* Math.round(total / daily.length) on non-negative counts: half rounds up.
trendAvg(daily) ==
    IF Len(daily) > 0
    THEN (2 * trendTotal(daily) + Len(daily)) \div (2 * Len(daily))
    ELSE 0

trendMax(daily) ==
    IF Len(daily) > 0
    THEN CHOOSE m \in { daily[i].downloads : i \in DOMAIN daily } :
            \A i \in DOMAIN daily : daily[i].downloads <= m
    ELSE 0

trendMin(daily) ==
    IF Len(daily) > 0
    THEN CHOOSE m \in { daily[i].downloads : i \in DOMAIN daily } :
            \A i \in DOMAIN daily : daily[i].downloads >= m
    ELSE 0

blocks == "▁▂▃▄▅▆▇█"

\* An index scaled by blocks.length, not blocks.length - 1.
sparkIndexByLength(downloads, max) ==
    LET level == (downloads * Len(blocks)) \div max
    IN IF level < Len(blocks) - 1 THEN level ELSE Len(blocks) - 1

\* Math.min(Math.floor((d.downloads / max) * (blocks.length - 1)),
\*          blocks.length - 1)
\* In double arithmetic floor((d / max) * 7) is floor(7 * d / max) for the
\* counts in range.
sparkIndex(downloads, max) ==
    LET level == (downloads * (Len(blocks) - 1)) \div max
    IN IF level < Len(blocks) - 1 THEN level ELSE Len(blocks) - 1

\* blocks[idx]
Glyph(idx) == SubSeq(blocks, idx + 1, idx + 1)

\* A sparkline that guards the division (max || 1) and not the drawing: a
\* series of zeros is drawn at the lowest level.
sparklineOfZeros(daily) ==
    IF Len(daily) > 0
    THEN Join([i \in DOMAIN daily |->
                 Glyph(IF trendMax(daily) > 0
                       THEN sparkIndex(daily[i].downloads, trendMax(daily)) ELSE 0)], "")
    ELSE ""

sparkline(daily) ==
    IF Len(daily) > 0 /\ trendMax(daily) > 0
    THEN Join([i \in DOMAIN daily |-> Glyph(sparkIndex(daily[i].downloads, trendMax(daily)))], "")
    ELSE ""

\* daily.slice(-14)
LastRows(daily) == SubSeq(daily, IF Len(daily) > 14 THEN Len(daily) - 13 ELSE 1, Len(daily))

tableRows(daily) ==
    Join([i \in DOMAIN LastRows(daily) |->
            "| " \o LastRows(daily)[i].day \o " | "
                 \o toLocaleString(LastRows(daily)[i].downloads) \o " |"], "\n")

\* lines.filter(Boolean): the empty strings are dropped.
RECURSIVE FilterBoolean(_)
FilterBoolean(lines) ==
    IF lines = <<>> THEN <<>>
    ELSE (IF lines[1] = "" THEN <<>> ELSE <<lines[1]>>) \o FilterBoolean(Tail(lines))

\* The figures of the report.
trendStats(daily) ==
    [total |-> trendTotal(daily), avg |-> trendAvg(daily), min |-> trendMin(daily),
     max |-> trendMax(daily), sparkline |-> sparkline(daily)]

\* The report; the dash of its heading is an em dash in the source.
trendReport(name, data) ==
    LET daily == dailyOf(data)
        stats == trendStats(daily)
    IN Join(FilterBoolean(<<
         "## " \o Coalesce(Get(data, "package"), name) \o " - "
               \o ToStr(Get(data, "start")) \o " to " \o ToStr(Get(data, "end")),
         "",
         "Total: " \o toLocaleString(stats.total)
               \o " | Avg/day: " \o toLocaleString(stats.avg)
               \o " | Min: " \o toLocaleString(stats.min)
               \o " | Max: " \o toLocaleString(stats.max),
         "",
         IF stats.sparkline # "" THEN "Trend: " \o stats.sparkline ELSE "",
         "",
         "| Day | Downloads |",
         "|-----|-----------|",
         tableRows(daily) >>), "\n")

\* getDownloadTrends after its await: p is the settled promise of fetchJson.
getDownloadTrends(name, p) ==
    IF p.state = "rejected" THEN p ELSE Fulfilled(trendReport(name, p.value))

\* -------------------------------------------------------------- the calls
Idle == [op |-> "idle"]

Task(url) ==
    [url |-> url, stage |-> "fetching", response |-> Undefined,
     body |-> Undefined, settled |-> Pending]

\* The operation's continuation on its only fetchJson promise.
Continue(c, p) ==
    CASE c.op = "searchPackages" -> searchPackages(p)
      [] c.op = "getPackageInfo" -> getPackageInfo(p)
      [] c.op = "getDownloads" -> getDownloads(c.name, p)
      [] c.op = "getBundleSize" -> getBundleSize(c.name, p)
      [] c.op = "getVulnerabilities" -> getVulnerabilities(c.name, p)
      [] c.op = "getDependencyTree" -> getDependencyTree(p)
      [] c.op = "getDownloadTrends" -> getDownloadTrends(c.name, p)

\* What the ok response to call c may carry as JSON.
Docs(c) ==
    CASE c.op = "searchPackages" -> SearchDocs
      [] c.op \in {"getPackageInfo", "getVulnerabilities", "getDependencyTree"} -> PackageDocs
      [] c.op = "getDownloads" -> PointDocs
      [] c.op = "compareDownloads" -> ComparePointDocs
      [] c.op = "getBundleSize" -> BundleDocs
      [] c.op = "getDownloadTrends" -> RangeDocs

Bodies(c, response) == IF response.ok THEN Docs(c) ELSE ErrorTexts

\* A call that issues the GET of its first target alone and leaves the
\* others for later.
StartFirstOnly(c, urls) ==
    /\ call' = c
    /\ requests' = <<urls[1]>>
    /\ tasks' = [i \in 1..Len(urls) |-> Task(urls[i])]
    /\ completed' = <<>>
    /\ results' = [i \in 1..Len(urls) |-> Undefined]
    /\ outcome' = Pending
    /\ UNCHANGED normalized

\* A call: its GETs are issued, in order, before control returns.
Start(c, urls) ==
    /\ call' = c
    /\ requests' = urls
    /\ tasks' = [i \in 1..Len(urls) |-> Task(urls[i])]
    /\ completed' = <<>>
    /\ results' = [i \in 1..Len(urls) |-> Undefined]
    /\ outcome' = Pending
    /\ UNCHANGED normalized

CallSearchPackages ==
    /\ call = Idle
    /\ \E query \in Queries, size \in Sizes :
          Start([op |-> "searchPackages", query |-> query, size |-> size],
                <<searchPackagesUrl(query, size)>>)

CallGetPackageInfo ==
    /\ call = Idle
    /\ \E name \in PackageNames :
          Start([op |-> "getPackageInfo", name |-> name], <<getPackageInfoUrl(name)>>)

CallGetBundleSize ==
    /\ call = Idle
    /\ \E name \in BundleNames :
          Start([op |-> "getBundleSize", name |-> name], <<getBundleSizeUrl(name)>>)

CallGetVulnerabilities ==
    /\ call = Idle
    /\ \E name \in PackageNames :
          Start([op |-> "getVulnerabilities", name |-> name], <<getPackageInfoUrl(name)>>)

CallGetDependencyTree ==
    /\ call = Idle
    /\ \E name \in PackageNames :
          Start([op |-> "getDependencyTree", name |-> name], <<getPackageInfoUrl(name)>>)

CallGetDownloadTrends ==
    /\ call = Idle
    /\ \E name \in PackageNames, period \in Periods :
          Start([op |-> "getDownloadTrends", name |-> name, period |-> period],
                <<getDownloadTrendsUrl(name, period)>>)

CallGetDownloads ==
    /\ call = Idle
    /\ \E name \in PackageNames, period \in Periods :
          Start([op |-> "getDownloads", name |-> name, period |-> period],
                <<getDownloadsUrl(name, period)>>)

CallCompareDownloads ==
    /\ call = Idle
    /\ \E packages \in PackageLists, period \in Periods :
          Start([op |-> "compareDownloads", packages |-> packages, period |-> period],
                [i \in 1..Len(packages) |-> getDownloadsUrl(packages[i], period)])

\* A fetchJson that is called again when it threw: the GET of fetch i is
\* reissued once, and the task awaits the new response.
DeliverRetrying(i, body, p) ==
    IF p.state = "rejected" /\ Len(requests) = Len(tasks)
    THEN /\ requests' = Append(requests, tasks[i].url)
         /\ tasks' = [tasks EXCEPT ![i].stage = "fetching", ![i].response = Undefined]
         /\ UNCHANGED <<completed, results, outcome>>
    ELSE LET q == IF call.op = "compareDownloads" THEN getDownloads(call.packages[i], p)
                  ELSE Continue(call, p)
             values == IF call.op = "compareDownloads" /\ q.state = "fulfilled"
                       THEN JoinStore(results, i, q.value) ELSE results
         IN /\ requests' = requests
            /\ tasks' = [tasks EXCEPT ![i].stage = "done", ![i].body = body, ![i].settled = q]
            /\ completed' = Append(completed, i)
            /\ results' = values
            /\ outcome' = IF call.op = "compareDownloads"
                          THEN JoinSettle(outcome, values, q) ELSE q

\* Fetch i has settled for the operation with promise p (of fetchJson): the
\* promise goes to the operation's continuation and no GET is issued.
Deliver(i, body, p) ==
    IF call.op = "compareDownloads"
    THEN LET q == getDownloads(call.packages[i], p)
             values == IF q.state = "fulfilled" THEN JoinStore(results, i, q.value)
                       ELSE results
         IN /\ requests' = requests
            /\ tasks' = [tasks EXCEPT ![i].stage = "done", ![i].body = body, ![i].settled = q]
            /\ completed' = Append(completed, i)
            /\ results' = values
            /\ outcome' = JoinSettle(outcome, values, q)
    ELSE LET q == Continue(call, p)
         IN /\ requests' = requests
            /\ tasks' = [tasks EXCEPT ![i].stage = "done", ![i].body = body, ![i].settled = q]
            /\ completed' = Append(completed, i)
            /\ results' = results
            /\ outcome' = q

\* fetch(url) resolves with a response.
FetchResolve ==
    \E i \in DOMAIN tasks, r \in Responses :
        /\ tasks[i].stage = "fetching"
        /\ tasks' = [tasks EXCEPT ![i].stage = "reading", ![i].response = Some(r)]
        /\ UNCHANGED <<call, requests, completed, results, outcome, normalized>>

\* fetch(url) rejects.
FetchReject ==
    \E i \in DOMAIN tasks :
        /\ tasks[i].stage = "fetching"
        /\ Deliver(i, Undefined, Rejected(NetworkError))
        /\ UNCHANGED <<call, normalized>>

\* response.json() / response.text() resolves.
BodyResolve ==
    \E i \in DOMAIN tasks :
        /\ tasks[i].stage = "reading"
        /\ \E body \in Bodies(call, tasks[i].response.value) :
              Deliver(i, Some(body), fetchJson(tasks[i].response.value, body))
        /\ UNCHANGED <<call, normalized>>

\* A body read whose rejection nobody handles: the fetch is done with and
\* the invocation is left undecided.
BodyRejectUnhandled ==
    \E i \in DOMAIN tasks :
        /\ tasks[i].stage = "reading"
        /\ tasks' = [tasks EXCEPT ![i].stage = "done"]
        /\ completed' = Append(completed, i)
        /\ UNCHANGED <<call, requests, results, outcome, normalized>>

\* response.json() / response.text() rejects.
BodyReject ==
    \E i \in DOMAIN tasks :
        /\ tasks[i].stage = "reading"
        /\ Deliver(i, Undefined, Rejected(BodyReadError(tasks[i].response.value)))
        /\ UNCHANGED <<call, normalized>>

\* The caller has its answer; the next invocation starts from scratch.
Return ==
    /\ outcome # Pending
    /\ call' = Idle
    /\ requests' = <<>>
    /\ tasks' = <<>>
    /\ completed' = <<>>
    /\ results' = <<>>
    /\ outcome' = Pending
    /\ UNCHANGED normalized

Init ==
    /\ call = Idle
    /\ requests = <<>>
    /\ tasks = <<>>
    /\ completed = <<>>
    /\ results = <<>>
    /\ outcome = Pending
    /\ normalized = <<>>

Next ==
    \/ CallSearchPackages
    \/ CallGetPackageInfo
    \/ CallGetBundleSize
    \/ CallGetVulnerabilities
    \/ CallGetDependencyTree
    \/ CallGetDownloadTrends
    \/ CallGetDownloads
    \/ CallCompareDownloads
    \/ FetchResolve
    \/ FetchReject
    \/ BodyResolve
    \/ BodyReject
    \/ Return

Spec == Init /\ [][Next]_vars

\* ------------------------------------------------- the responsive network
\* fetch(url) of fetch i settles, with a response or with an error.
FetchSettles(i) ==
    /\ i \in DOMAIN tasks
    /\ tasks[i].stage = "fetching"
    /\ FetchReject \/ FetchResolve
    /\ tasks'[i].stage # "fetching"

\* The read of the body of fetch i fails.  This step is enabled exactly while
\* the read is pending, and the read's completion, with a body or with an
\* error, disables it: its weak fairness says that no read stays pending for
\* ever, and asks for no failure.
BodyReadFails(i) ==
    /\ i \in DOMAIN tasks
    /\ tasks[i].stage = "reading"
    /\ BodyReject
    /\ tasks'[i].stage = "done"

\* Every request issued is eventually answered or fails, and every body
\* read eventually completes or fails.
Responsive ==
    \A i \in 1..MaxPackages : WF_vars(FetchSettles(i)) /\ WF_vars(BodyReadFails(i))

SpecResponsive == Init /\ [][Next]_vars /\ Responsive

\* ------------------------------------------- the repository normalization
\* The pieces the repository strings are made of.
RepoParts == { "git+", ".git", "https://github.com/x/y", "git", "+", "." }

RECURSIVE Concat(_)
Concat(parts) == IF parts = <<>> THEN "" ELSE parts[1] \o Concat(Tail(parts))

\* Every string of at most MaxParts pieces.
RepoInputs == { Concat(parts) : parts \in SeqUpTo(RepoParts, MaxParts) }

InitNormalize ==
    /\ call = Idle
    /\ requests = <<>>
    /\ tasks = <<>>
    /\ completed = <<>>
    /\ results = <<>>
    /\ outcome = Pending
    /\ normalized \in { <<s>> : s \in RepoInputs }

\* The normalization applied to the string as given.
NormalizeOnce ==
    /\ Len(normalized) = 1
    /\ normalized' = Append(normalized, normalizeRepository(normalized[1]))
    /\ UNCHANGED <<call, requests, tasks, completed, results, outcome>>

\* The normalization applied to its own result.
NormalizeAgain ==
    /\ Len(normalized) = 2
    /\ normalized' = Append(normalized, normalizeRepository(normalized[2]))
    /\ UNCHANGED <<call, requests, tasks, completed, results, outcome>>

NextNormalize == NormalizeOnce \/ NormalizeAgain

SpecNormalize == InitNormalize /\ [][NextNormalize]_vars

\* ===================================================================== C1
\* The task of fetch i, and whether it has settled one way or the other.
IsFulfilled(i) == tasks[i].settled.state = "fulfilled"
IsRejected(i) == tasks[i].settled.state = "rejected"

Comparing == call.op = "compareDownloads"

\* C1: a successful compareDownloads returns as many elements as it was given
\* packages, and element i is the DownloadStats made from the document that
\* answered the GET issued for packages[i], whatever the order in which the
\* fetches completed.
C1_InputOrderPreserved ==
    (Comparing /\ outcome.state = "fulfilled") =>
        /\ Len(outcome.value) = Len(call.packages)
        /\ \A i \in DOMAIN call.packages :
              /\ requests[i] = getDownloadsUrl(call.packages[i], call.period)
              /\ tasks[i].url = requests[i]
              /\ tasks[i].body # Undefined
              /\ outcome.value[i].package
                   = Coalesce(Get(tasks[i].body.value, "package"), call.packages[i])
              /\ outcome.value[i].downloads = Get(tasks[i].body.value, "downloads")
              /\ outcome.value[i].start = Get(tasks[i].body.value, "start")
              /\ outcome.value[i].end = Get(tasks[i].body.value, "end")

\* The second fetch completed first, with another document than the first.
C1_Witness ==
    /\ Comparing
    /\ outcome.state = "fulfilled"
    /\ completed = <<2, 1>>
    /\ outcome.value[1] # outcome.value[2]

\* ===================================================================== C2
\* C2: once the fetch of any package of a comparison has failed, the
\* comparison has failed with an error and returns no sequence, whether the
\* other fetches succeeded before or after the failure or are still pending.
C2_NoPartialSuccess ==
    (Comparing /\ \E i \in DOMAIN tasks : IsRejected(i)) =>
        /\ outcome.state = "rejected"
        /\ \E i \in DOMAIN tasks : IsRejected(i) /\ outcome.error = tasks[i].settled.error

\* One fetch succeeded, then the other failed.
C2_Witness ==
    /\ Comparing
    /\ completed = <<1, 2>>
    /\ IsFulfilled(1)
    /\ IsRejected(2)
    /\ outcome.state = "rejected"

\* ===================================================================== C3
\* The operations C3 speaks of.
CoreOps ==
    { "searchPackages", "getPackageInfo", "getDownloads", "compareDownloads",
      "getBundleSize", "getDependencyTree", "getDownloadTrends" }

SingleFetchOps == CoreOps \ { "compareDownloads" }

\* Fetch i was answered with ok = false and response.text() has been read.
HttpFailed(i) ==
    /\ tasks[i].stage = "done"
    /\ tasks[i].response # Undefined
    /\ ~tasks[i].response.value.ok
    /\ tasks[i].body # Undefined

\* The message C3 expects of the failure of fetch i.
ApiErrorMessage(i) ==
    "API error (" \o ToString(tasks[i].response.value.status) \o "): "
                  \o tasks[i].body.value

\* The first fetch, in time, whose promise was rejected.
FirstRejected ==
    completed[CHOOSE k \in DOMAIN completed :
                 /\ IsRejected(completed[k])
                 /\ \A j \in 1..(k - 1) : ~IsRejected(completed[j])]

\* C3 as stated: every response with ok = false, in every core operation,
\* makes the operation fail with a message that carries that response's
\* status code and body text.
C3_AsStated ==
    \A i \in DOMAIN tasks :
        (call.op \in CoreOps /\ HttpFailed(i)) =>
            /\ outcome.state = "rejected"
            /\ Includes(outcome.error, ToString(tasks[i].response.value.status))
            /\ Includes(outcome.error, tasks[i].body.value)

\* C3, amended: in a single-request core operation a response with ok = false
\* whose body text has been read makes the operation fail with the message
\* API error (<status>): <body text>, "404" in it for status 404.  In
\* compareDownloads it makes the comparison fail with the error of the fetch
\* that failed first, which is that message when this response was the first
\* failure.
C3_UpstreamError ==
    \A i \in DOMAIN tasks :
        (call.op \in CoreOps /\ HttpFailed(i)) =>
            /\ tasks[i].settled = Rejected(ApiErrorMessage(i))
            /\ Includes(tasks[i].settled.error, tasks[i].body.value)
            /\ tasks[i].response.value.status = 404
                 => Includes(tasks[i].settled.error, "404")
            /\ outcome.state = "rejected"
            /\ call.op \in SingleFetchOps => outcome.error = ApiErrorMessage(i)
            /\ Comparing => outcome = tasks[FirstRejected].settled

\* A comparison answered 404 and then 500: it fails with the 404's message,
\* the 500's fetch with its own.
C3_Witness ==
    /\ Comparing
    /\ completed = <<2, 1>>
    /\ HttpFailed(1)
    /\ HttpFailed(2)
    /\ tasks[1].settled = Rejected("API error (500): Internal Server Error")
    /\ outcome = Rejected("API error (404): Not found")

\* A dependency tree answered 404.
C3_SingleFetchWitness ==
    /\ call.op = "getDependencyTree"
    /\ HttpFailed(1)
    /\ outcome = Rejected("API error (404): Not found")

\* ===================================================================== C4
\* The document that answered the only fetch of the invocation.
Document == tasks[1].body.value

Looked == call.op = "getPackageInfo" /\ outcome.state = "fulfilled"

HasLatest == "dist-tags" \in DOMAIN Document /\ "latest" \in DOMAIN Document["dist-tags"]

HasLatestEntry ==
    /\ HasLatest
    /\ "versions" \in DOMAIN Document
    /\ Document["dist-tags"].latest \in DOMAIN Document.versions

\* The mapping `field` of the versions entry of the latest dist-tag; empty
\* when any link of the chain is absent.
LatestMapping(field) ==
    IF HasLatestEntry /\ field \in DOMAIN Document.versions[Document["dist-tags"].latest]
    THEN Document.versions[Document["dist-tags"].latest][field]
    ELSE <<>>

\* C4: getPackageInfo takes both dependency mappings from the versions entry
\* of dist-tags.latest and from no other; when dist-tags, latest, versions,
\* the entry or its fields are absent the mappings are empty, the version is
\* the empty string where latest is missing, and the lookup succeeds.
C4_LatestVersionOnly ==
    /\ Looked =>
         /\ outcome.value.version = (IF HasLatest THEN Document["dist-tags"].latest ELSE "")
         /\ outcome.value.dependencies = LatestMapping("dependencies")
         /\ outcome.value.devDependencies = LatestMapping("devDependencies")
    /\ (call.op = "getPackageInfo" /\ tasks[1].stage = "done"
          /\ tasks[1].body # Undefined /\ tasks[1].response.value.ok)
         => outcome.state = "fulfilled"

\* C4 holds of every document whose versions map has no entry under the
\* empty key.
C4_ExceptEmptyKey ==
    (Looked /\ ("versions" \in DOMAIN Document => "" \notin DOMAIN Document.versions))
        => C4_LatestVersionOnly

\* ===================================================================== C5
\* C5 as stated: normalizing a normalized repository string changes nothing,
\* whatever the string.
C5_AsStated == Len(normalized) = 3 => normalized[3] = normalized[2]

\* C5, amended: the normalization removes one leading git+ and one trailing
\* .git, so normalizing twice is normalizing once for every string that
\* neither starts with git+git+ nor ends with .git.git.
C5_IdempotentOnSinglePrefixSuffix ==
    (/\ Len(normalized) = 3
     /\ ~StartsWith(normalized[1], "git+git+")
     /\ ~EndsWith(normalized[1], ".git.git"))
        => normalized[3] = normalized[2]

\* A git+ URL with a .git suffix, normalized twice.
C5_Witness ==
    /\ Len(normalized) = 3
    /\ normalized[1] = "git+https://github.com/x/y.git"
    /\ normalized[2] = "https://github.com/x/y"
    /\ normalized[3] = "https://github.com/x/y"

\* ===================================================================== C6
Bundling == call.op = "getBundleSize"

HasAt(name) == \E i \in 1..Len(name) : SubSeq(name, i, i) = "@"

\* The portion of `name` before its first "@"; all of it when it has none.
BeforeFirstAt(name) ==
    CHOOSE q \in { SubSeq(name, 1, k) : k \in 0..Len(name) } :
        /\ ~HasAt(q)
        /\ q = name \/ SubSeq(name, Len(q) + 1, Len(q) + 1) = "@"

\* C6: getBundleSize requests its input unchanged when the input has an "@",
\* its input followed by @latest when it has none; the name it returns when
\* the response has none is the input up to its first "@".
C6_BundleSpec ==
    Bundling =>
        /\ requests = << BUNDLEPHOBIA \o "?package="
                           \o encodeURIComponent(IF HasAt(call.name) THEN call.name
                                                 ELSE call.name \o "@latest") >>
        /\ call.name = "lodash"
             => requests[1] = "https://bundlephobia.com/api/size?package=lodash%40latest"
        /\ call.name = "lodash@4.17.21"
             => requests[1] = "https://bundlephobia.com/api/size?package=lodash%404.17.21"
        /\ outcome.state = "fulfilled" =>
             outcome.value.name = (IF "name" \in DOMAIN Document THEN Document.name
                                   ELSE BeforeFirstAt(call.name))

\* A scoped package with a version, answered without a name.
C6_Witness ==
    /\ Bundling
    /\ call.name = "@scope/pkg@1.0.0"
    /\ requests[1] = "https://bundlephobia.com/api/size?package=%40scope%2Fpkg%401.0.0"
    /\ outcome.state = "fulfilled"
    /\ "name" \notin DOMAIN Document
    /\ outcome.value.name = ""

\* ===================================================================== C7
\* C7: whatever fields a successful response lacks, every field of the
\* record returned by searchPackages, getPackageInfo, getDownloads and
\* getBundleSize is defined.  (The fields the code gives a default are
\* values of the model; those it copies are Undefined or Some(v).)
C7_NoUndefinedField ==
    outcome.state = "fulfilled" =>
        /\ call.op = "searchPackages" =>
             \A i \in DOMAIN outcome.value :
                 /\ outcome.value[i].name # Undefined
                 /\ outcome.value[i].version # Undefined
        /\ call.op = "getPackageInfo" => outcome.value.name # Undefined
        /\ call.op = "getDownloads" =>
             /\ outcome.value.downloads # Undefined
             /\ outcome.value.start # Undefined
             /\ outcome.value.end # Undefined

\* ===================================================================== C8
Trending == call.op = "getDownloadTrends" /\ outcome.state = "fulfilled"

\* The series of the answer, and its counts.
TrendSeries ==
    IF "downloads" \in DOMAIN Document THEN Document.downloads ELSE <<>>

Counts == [i \in DOMAIN TrendSeries |-> TrendSeries[i].downloads]

Largest == CHOOSE m \in { Counts[i] : i \in DOMAIN Counts } : \A i \in DOMAIN Counts : Counts[i] <= m

\* floor((downloads_i / max) * 7)
Level(i) == (Counts[i] * 7) \div Largest

\* C8: for a non-empty series with a positive maximum the sparkline has one
\* glyph per point, in series order, glyph i being level
\* floor((downloads_i / max) * 7) of the 8-glyph ramp, a level from 0 to 7;
\* a point at the maximum has the top glyph.  The report shows it.
C8_Sparkline ==
    (Trending /\ Len(TrendSeries) > 0 /\ \E i \in DOMAIN Counts : Counts[i] > 0) =>
        /\ Len(sparkline(TrendSeries)) = Len(TrendSeries)
        /\ \A i \in DOMAIN Counts :
              /\ Level(i) \in 0..7
              /\ SubSeq(sparkline(TrendSeries), i, i)
                   = SubSeq("▁▂▃▄▅▆▇█", Level(i) + 1, Level(i) + 1)
              /\ Counts[i] = Largest => SubSeq(sparkline(TrendSeries), i, i) = "█"
        /\ Includes(outcome.value, "\nTrend: " \o sparkline(TrendSeries) \o "\n")

\* Three days at a seventh, all and four sevenths of the maximum.
C8_Witness ==
    /\ Trending
    /\ Len(TrendSeries) = 3
    /\ Counts = <<1, 7, 4>>
    /\ Includes(outcome.value, "\nTrend: ▂█▅\n")

\* ===================================================================== C9
\* C9: an empty or absent series is reported with total, average, minimum
\* and maximum 0 and no sparkline, and the report is made (no error); a
\* series whose maximum is 0 has no sparkline either.
C9_EmptySeries ==
    /\ (Trending /\ TrendSeries = <<>>) =>
         /\ trendStats(dailyOf(Document))
              = [total |-> 0, avg |-> 0, min |-> 0, max |-> 0, sparkline |-> ""]
         /\ Includes(outcome.value, "\nTotal: 0 | Avg/day: 0 | Min: 0 | Max: 0\n")
         /\ ~Includes(outcome.value, "Trend:")
    /\ (Trending /\ \A i \in DOMAIN Counts : Counts[i] = 0) =>
         /\ trendStats(dailyOf(Document)).sparkline = ""
         /\ ~Includes(outcome.value, "Trend:")
    /\ (call.op = "getDownloadTrends" /\ tasks[1].stage = "done"
          /\ tasks[1].body # Undefined /\ tasks[1].response.value.ok)
         => outcome.state = "fulfilled"

\* A document without `downloads`, reported.
C9_Witness ==
    /\ Trending
    /\ "downloads" \notin DOMAIN Document
    /\ Includes(outcome.value, "Total: 0 | Avg/day: 0 | Min: 0 | Max: 0")

\* ==================================================================== C10
Checking == call.op = "getVulnerabilities"

\* The package lookup of the invocation has failed: its fetch was rejected,
\* its body could not be read, or the response was not ok.
LookupFailed ==
    /\ tasks[1].stage = "done"
    /\ \/ tasks[1].response = Undefined
       \/ tasks[1].body = Undefined
       \/ ~tasks[1].response.value.ok

\* The message of the error the lookup failed with.
LookupError ==
    IF tasks[1].response = Undefined THEN "fetch failed"
    ELSE IF tasks[1].body = Undefined
         THEN (IF tasks[1].response.value.ok THEN "Unexpected end of JSON input"
               ELSE "terminated")
    ELSE ApiErrorMessage(1)

\* C10: when the package lookup fails getVulnerabilities fails, with a
\* message that names the vulnerability check and contains the message of
\* the lookup's error; it returns the instructional text, with the advisory
\* URL of the name the registry gave, only when the lookup succeeded.
C10_LookupFailureWrapped ==
    (Checking /\ tasks[1].stage = "done") =>
        /\ LookupFailed =>
             /\ outcome.state = "rejected"
             /\ Includes(outcome.error, "vulnerability check")
             /\ Includes(outcome.error, LookupError)
        /\ outcome.state = "fulfilled" =>
             /\ ~LookupFailed
             /\ Includes(outcome.value, "npm audit")
             /\ "name" \in DOMAIN Document =>
                  Includes(outcome.value,
                           "\nhttps://github.com/advisories?query="
                              \o encodeURIComponent(Document.name) \o "\n")

\* The lookup answered 404.
C10_Witness ==
    /\ Checking
    /\ LookupFailed
    /\ outcome = Rejected("Could not fetch package info for vulnerability check: "
                            \o "API error (404): Not found")

\* ==================================================================== C11
\* The number of targets of the invocation: its packages, or one.
Targets == IF Comparing THEN Len(call.packages) ELSE 1

\* The name target i of the invocation is fetched under, for the operations
\* that take package names.
TargetName(i) == IF Comparing THEN call.packages[i] ELSE call.name

NamedOps ==
    { "getPackageInfo", "getDownloads", "compareDownloads", "getVulnerabilities",
      "getDependencyTree", "getDownloadTrends" }

\* The request of fetch i has failed: the fetch was rejected, the response
\* was not ok, or its body could not be read.
RequestFailed(i) ==
    \/ tasks[i].stage = "done" /\ tasks[i].response = Undefined
    \/ tasks[i].response # Undefined /\ ~tasks[i].response.value.ok
    \/ tasks[i].stage = "done" /\ tasks[i].body = Undefined

\* C11: throughout an invocation the GETs issued are exactly one per target,
\* request i being the one for target i (n of them for a comparison of n
\* packages, one otherwise), also after a request has failed; an invocation
\* one of whose requests has failed never returns a result, and has failed
\* once that request is done with.
C11_NoRetry ==
    call # Idle =>
        /\ Len(requests) = Targets
        /\ Len(tasks) = Targets
        /\ \A i \in DOMAIN requests :
              /\ requests[i] = tasks[i].url
              /\ call.op \in NamedOps
                   => EndsWith(requests[i], "/" \o encodeURIComponent(TargetName(i)))
        /\ \A i \in DOMAIN tasks :
              RequestFailed(i) =>
                  /\ outcome.state # "fulfilled"
                  /\ tasks[i].stage = "done" => outcome.state = "rejected"

\* A comparison of two packages whose first fetch was rejected while the
\* second is still awaited: two GETs, and the comparison has failed.
C11_Witness ==
    /\ Comparing
    /\ Len(call.packages) = 2
    /\ completed = <<1>>
    /\ RequestFailed(1)
    /\ tasks[2].stage = "fetching"
    /\ Len(requests) = 2
    /\ outcome = Rejected("fetch failed")

\* ==================================================================== C12
Rendering == call.op = "getDependencyTree" /\ outcome.state = "fulfilled"

\* text.split("\n")
RECURSIVE SplitLines(_)
SplitLines(text) ==
    IF IndexOf(text, "\n") = 0 THEN <<text>>
    ELSE <<SubSeq(text, 1, IndexOf(text, "\n") - 1)>>
           \o SplitLines(SubSeq(text, IndexOf(text, "\n") + 1, Len(text)))

TreeLines == SplitLines(outcome.value)

\* The two mappings of the package information the tree is rendered from.
TreeDeps == getPackageInfo(Fulfilled(Document)).value.dependencies
TreeDevDeps == getPackageInfo(Fulfilled(Document)).value.devDependencies

\* Where the lines that read `line` are among `lines`.
Positions(lines, line) == { k \in DOMAIN lines : lines[k] = line }

\* The lines after line k are the entries, one each, in their order.
EntriesFollow(lines, k, entries) ==
    /\ k + Len(entries) <= Len(lines)
    /\ \A j \in DOMAIN entries :
          lines[k + j] = Connector \o entries[j][1] \o "@" \o entries[j][2]

\* C12: the tree has the line (no dependencies) exactly when both mappings are
\* empty, and then neither label; otherwise it has the label dependencies:
\* once exactly when that mapping is not empty, the label devDependencies:
\* once exactly when that one is not, the first label before the second, each
\* label followed by one line connector name@range per entry of its mapping,
\* and no other line with the connector.
C12_TreeRendering ==
    Rendering =>
        LET lines == TreeLines
            deps == TreeDeps
            devDeps == TreeDevDeps
            depLabels == Positions(lines, "dependencies:")
            devDepLabels == Positions(lines, "devDependencies:")
        IN /\ Positions(lines, "(no dependencies)") # {} <=> (deps = <<>> /\ devDeps = <<>>)
           /\ (deps = <<>> /\ devDeps = <<>>) =>
                /\ depLabels = {}
                /\ devDepLabels = {}
                /\ lines[Len(lines)] = "(no dependencies)"
           /\ Cardinality(depLabels) = (IF deps # <<>> THEN 1 ELSE 0)
           /\ Cardinality(devDepLabels) = (IF devDeps # <<>> THEN 1 ELSE 0)
           /\ \A k \in depLabels : EntriesFollow(lines, k, deps)
           /\ \A k \in devDepLabels : EntriesFollow(lines, k, devDeps)
           /\ \A k \in depLabels, l \in devDepLabels : k + Len(deps) < l
           /\ Cardinality({ k \in DOMAIN lines : StartsWith(lines[k], Connector) })
                = Len(deps) + Len(devDeps)

\* A package with two dependencies and one devDependency.
C12_Witness ==
    /\ Rendering
    /\ Len(TreeDeps) = 2
    /\ Len(TreeDevDeps) = 1
    /\ TreeLines = << "express@4.18.0", "", "dependencies:", "|-- debug@2.6.9",
                      "|-- qs@6.11.0", "", "devDependencies:", "|-- eslint@8.0.0" >>

\* A package whose latest version has neither mapping.
C12_MarkerWitness ==
    /\ Rendering
    /\ HasLatestEntry
    /\ TreeLines = << "express@5.0.0", "", "(no dependencies)" >>

\* A package with devDependencies alone.
C12_DevOnlyWitness ==
    /\ Rendering
    /\ TreeLines = << "express@5.0.0", "", "", "devDependencies:", "|-- mocha@10.2.0" >>

\* ==================================================================== C13
\* The sum of the first k counts.
RECURSIVE SumTo(_)
SumTo(k) == IF k = 0 THEN 0 ELSE SumTo(k - 1) + Counts[k]

CountSum == SumTo(Len(Counts))

Smallest == CHOOSE m \in { Counts[i] : i \in DOMAIN Counts } : \A i \in DOMAIN Counts : Counts[i] >= m

\* The integer a with a - 1/2 <= sum / length < a + 1/2: the quotient rounded
\* to the nearest integer, a half rounded up.
RoundedMean(sum, length) ==
    CHOOSE a \in 0..sum :
        /\ 2 * a * length <= 2 * sum + length
        /\ 2 * sum + length < 2 * (a + 1) * length

\* C13: for a non-empty series getDownloadTrends reports as total the sum of
\* the counts, as average the total divided by the length and rounded half-up,
\* as minimum the smallest and as maximum the largest count; the minimum is at
\* most the average, the average at most the maximum, and the total lies
\* between length times the minimum and length times the maximum.
C13_TrendStatistics ==
    (Trending /\ Len(TrendSeries) > 0) =>
        LET stats == trendStats(dailyOf(Document))
            length == Len(Counts)
            sum == CountSum
            mean == RoundedMean(sum, length)
            least == Smallest
            most == Largest
        IN /\ stats.total = sum
           /\ stats.avg = mean
           /\ stats.min = least
           /\ stats.max = most
           /\ Includes(outcome.value,
                       "\nTotal: " \o toLocaleString(sum)
                          \o " | Avg/day: " \o toLocaleString(mean)
                          \o " | Min: " \o toLocaleString(least)
                          \o " | Max: " \o toLocaleString(most) \o "\n")
           /\ least <= mean
           /\ mean <= most
           /\ least * length <= sum
           /\ sum <= most * length

\* Two days, 1 and 2 downloads: the average 1.5 is reported as 2.
C13_Witness ==
    /\ Trending
    /\ Counts = <<1, 2>>
    /\ Includes(outcome.value, "\nTotal: 3 | Avg/day: 2 | Min: 1 | Max: 2\n")

\* Three days whose average 1/3 is reported as 0.
C13_RoundDownWitness ==
    /\ Trending
    /\ Counts = <<0, 1, 0>>
    /\ Includes(outcome.value, "\nTotal: 1 | Avg/day: 0 | Min: 0 | Max: 1\n")

\* ==================================================================== C14
\* The GET of package i of the comparison c.
CompareUrl(c, i) ==
    "https://api.npmjs.org/downloads/point/"
        \o (IF c.period = Undefined THEN "last-month" ELSE c.period.value)
        \o "/" \o encodeURIComponent(c.packages[i])

\* C14: the step that starts a comparison issues the GETs of all its
\* packages, in input order, with no fetch completed and no response
\* received; every later step of the comparison, each of which processes a
\* response or a failure of one fetch, finds all of them issued and issues
\* none.
C14_LaunchAllFirst ==
    [][ /\ (call = Idle /\ call'.op = "compareDownloads") =>
             /\ requests' = [i \in DOMAIN call'.packages |-> CompareUrl(call', i)]
             /\ completed' = <<>>
             /\ \A i \in DOMAIN call'.packages :
                   /\ tasks'[i].stage = "fetching"
                   /\ tasks'[i].response = Undefined
                   /\ tasks'[i].settled = Pending
        /\ (Comparing /\ call' = call /\ tasks' # tasks) =>
             /\ requests = [i \in DOMAIN call.packages |-> CompareUrl(call, i)]
             /\ requests' = requests
      ]_vars

\* The second fetch of a comparison of two different packages is done with
\* while the first is still awaited; both GETs were issued, in input order.
C14_Witness ==
    /\ Comparing
    /\ requests = << "https://api.npmjs.org/downloads/point/last-month/zustand",
                     "https://api.npmjs.org/downloads/point/last-month/%40scope%2Fpkg" >>
    /\ tasks[2].stage = "done"
    /\ tasks[1].stage = "fetching"

\* ==================================================================== C15
\* Every fetch of the invocation is done with.
AllDone == \A i \in DOMAIN tasks : tasks[i].stage = "done"

\* C15: a comparison has succeeded only when every one of its fetches has
\* completed successfully, and it has succeeded once they all have; as soon
\* as one fetch has failed, the others pending or not, the comparison has
\* failed, with the error of the fetch that failed first in time, whatever
\* the positions of the failed fetches in the input; it is undecided only
\* while no fetch has failed and some fetch is still awaited.
C15_FirstFailureWins ==
    Comparing =>
        /\ outcome.state = "fulfilled" =>
             /\ Len(completed) = Len(call.packages)
             /\ \A i \in DOMAIN tasks : IsFulfilled(i)
        /\ (\A i \in DOMAIN tasks : IsFulfilled(i)) => outcome.state = "fulfilled"
        /\ (\E i \in DOMAIN tasks : IsRejected(i)) =>
             /\ outcome.state = "rejected"
             /\ outcome.error = tasks[FirstRejected].settled.error
        /\ outcome.state = "rejected" => \E i \in DOMAIN tasks : IsRejected(i)
        /\ outcome = Pending =>
             /\ ~AllDone
             /\ \A i \in DOMAIN tasks : ~IsRejected(i)
        /\ \A j, k \in DOMAIN completed : j # k => completed[j] # completed[k]
        /\ \A i \in DOMAIN tasks :
              tasks[i].stage = "done" <=> \E k \in DOMAIN completed : completed[k] = i

\* Both fetches failed, the second of the input first and with another error
\* than the first: the comparison reports the error of the second.
C15_Witness ==
    /\ Comparing
    /\ completed = <<2, 1>>
    /\ tasks[2].settled = Rejected("fetch failed")
    /\ tasks[1].settled = Rejected("API error (404): Not found")
    /\ outcome = Rejected("fetch failed")

\* The comparison has failed while its first fetch is still awaited.
C15_PendingWitness ==
    /\ Comparing
    /\ completed = <<2>>
    /\ IsRejected(2)
    /\ tasks[1].stage = "fetching"
    /\ outcome.state = "rejected"

\* ==================================================================== C16
\* C16: on a network that answers every request and completes every body
\* read, every invocation, a comparison of any number of packages among
\* them, eventually has an outcome; the outcome is a result or a failure,
\* and once it has one it keeps it, unchanged, until it is returned: no
\* invocation has both a result and a failure.
C16_Terminates ==
    /\ (call # Idle) ~> (outcome # Pending)
    /\ [](outcome # Pending => /\ call # Idle
                               /\ outcome.state \in {"fulfilled", "rejected"})
    /\ [][outcome # Pending => \/ outcome' = outcome
                               \/ call' = Idle /\ outcome' = Pending]_vars

\* A comparison all of whose fetches are done with has its result.
C16_Witness ==
    /\ Comparing
    /\ Len(call.packages) = MinPackages
    /\ AllDone
    /\ outcome.state = "fulfilled"
    /\ Len(outcome.value) = MinPackages

\* A vulnerability check whose lookup could not read its body has failed.
C16_FailureWitness ==
    /\ Checking
    /\ AllDone
    /\ tasks[1].response # Undefined
    /\ tasks[1].body = Undefined
    /\ outcome.state = "rejected"

====
